---- MODULE Spec2Model ----
(***************************************************************************)
(* Model of the enum_ids attribute macro (icsmw/enum_ids).                 *)
(*                                                                         *)
(* One macro invocation: the directive list `args` is parsed entry by      *)
(* entry into Context.attrs (context.rs, Context::parse), then the source  *)
(* enum is read and the generated unit is built (lib.rs, enum_ids).        *)
(*                                                                         *)
(* A String or an identifier is a sequence of characters, a character a    *)
(* one-element string, so that splitting, trimming, concatenation and the  *)
(* snake-case scan are computed as the code computes them.  The key of a   *)
(* directive is compared as a whole (attr.rs compares to_string() with     *)
(* the key text) and is kept as one string.                                *)
(***************************************************************************)
EXTENDS Integers, Sequences, FiniteSets, TLC

VARIABLES args, pos, attrs, pc, err, item, out, name, results

vars == <<args, pos, attrs, pc, err, item, out, name, results>>

(***************************************************************************)
(* Bounds of the model.                                                    *)
(***************************************************************************)
MaxArgs == 2
MaxVariants == 3
MaxNameLen == 3

(***************************************************************************)
(* Characters.                                                             *)
(***************************************************************************)
AsciiUpper ==
    <<"A", "B", "C", "D", "E", "F", "G", "H", "I", "J", "K", "L", "M",
      "N", "O", "P", "Q", "R", "S", "T", "U", "V", "W", "X", "Y", "Z">>

AsciiLower ==
    <<"a", "b", "c", "d", "e", "f", "g", "h", "i", "j", "k", "l", "m",
      "n", "o", "p", "q", "r", "s", "t", "u", "v", "w", "x", "y", "z">>

Digits == {"0", "1", "2", "3", "4", "5", "6", "7", "8", "9"}

Range(s) == {s[i] : i \in DOMAIN s}

IndexOf(s, c) == CHOOSE i \in DOMAIN s : s[i] = c

\* A letter outside ASCII that char::is_uppercase accepts and that Rust
\* allows in identifiers (U+00C9, E with acute), and its lowercase (U+00E9).
UpperEAcute == "U+00C9"
LowerEAcute == "U+00E9"

\* char::is_uppercase: the Unicode property Uppercase.
is_uppercase(c) == c \in Range(AsciiUpper) \cup {UpperEAcute}

\* char::to_ascii_lowercase: maps 'A'..'Z' only, every other char unchanged.
to_ascii_lowercase(c) ==
    IF c \in Range(AsciiUpper) THEN AsciiLower[IndexOf(AsciiUpper, c)] ELSE c

\* char::is_whitespace, on the characters of the model.
is_whitespace(c) == c = " "

\* XID_Start or '_', and XID_Continue, on the characters of the model.
IsIdentStart(c) ==
    c \in Range(AsciiUpper) \cup Range(AsciiLower) \cup {"_", UpperEAcute, LowerEAcute}

IsIdentContinue(c) == IsIdentStart(c) \/ c \in Digits

\* Ident::new(string, span) panics unless string is a valid identifier.
IsValidIdent(s) ==
    /\ Len(s) > 0
    /\ IsIdentStart(s[1])
    /\ \A i \in 2..Len(s) : IsIdentContinue(s[i])

(***************************************************************************)
(* attr.rs: the directive vocabulary.                                      *)
(***************************************************************************)
\* The variants of enum Attr; flags carry the empty payload.
Attr(kind, value) == [kind |-> kind, value |-> value]

Flag(kind) == Attr(kind, <<>>)

\* impl fmt::Display for Attr
AttrToString(a) ==
    CASE a.kind = "Derive" -> "derive"
      [] a.kind = "Getter" -> "getter"
      [] a.kind = "EnumName" -> "name"
      [] a.kind = "Display" -> "display"
      [] a.kind = "DisplayVariant" -> "display_variant"
      [] a.kind = "DisplayFromValue" -> "display_from_value"
      [] a.kind = "NoDerive" -> "no_derive"
      [] a.kind = "NotPublic" -> "not_public"
      [] a.kind = "Public" -> "public"

Ok(a) == [ok |-> TRUE, attr |-> a, text |-> ""]

UnknownAttribute(value) == [ok |-> FALSE, attr |-> Flag("None"), text |-> value]

\* impl TryFrom<&str> for Attr
TryFrom(value) ==
    IF AttrToString(Attr("Derive", <<>>)) = value THEN Ok(Attr("Derive", <<>>))
    ELSE IF AttrToString(Attr("Getter", <<>>)) = value THEN Ok(Attr("Getter", <<>>))
    ELSE IF AttrToString(Attr("EnumName", <<>>)) = value THEN Ok(Attr("EnumName", <<>>))
    ELSE IF AttrToString(Flag("NoDerive")) = value THEN Ok(Flag("NoDerive"))
    ELSE IF AttrToString(Flag("Display")) = value THEN Ok(Flag("Display"))
    ELSE IF AttrToString(Flag("DisplayVariant")) = value THEN Ok(Flag("DisplayVariant"))
    ELSE IF AttrToString(Flag("DisplayFromValue")) = value THEN Ok(Flag("DisplayFromValue"))
    ELSE IF AttrToString(Flag("NotPublic")) = value THEN Ok(Flag("NotPublic"))
    ELSE IF AttrToString(Flag("Public")) = value THEN Ok(Flag("Public"))
    ELSE UnknownAttribute(value)

(***************************************************************************)
(* context.rs: Context::parse, one directive-list entry.                   *)
(*                                                                         *)
(* An entry is a syn::Expr.  form is the Expr variant; for Expr::Assign    *)
(* left is "ident" (a one-segment path), "path" (any other Expr::Path) or  *)
(* "other", and right is "str" (Lit::Str), "lit" (any other Expr::Lit) or  *)
(* "other"; for Expr::Path left tells whether get_ident() is Some.         *)
(***************************************************************************)
Expr(form, left, ident, right, value) ==
    [form |-> form, left |-> left, ident |-> ident, right |-> right, value |-> value]

NoErr == [msg |-> "", ident |-> "", unknown |-> ""]

Error(msg, ident, unknown) == [msg |-> msg, ident |-> ident, unknown |-> unknown]

Parsed(a) == [ok |-> TRUE, attr |-> a, err |-> NoErr]

Rejected(e) == [ok |-> FALSE, attr |-> Flag("None"), err |-> e]

ValueKinds == {"Derive", "Getter", "EnumName"}

\* The flag variants the Expr::Path branch lets through (context.rs:242-248).
PathKinds ==
    {"NoDerive", "NotPublic", "Public", "Display", "DisplayVariant",
     "DisplayVariantSnake", "DisplayFromValue"}

\* The Expr::Assign branch.
ParseAssign(e) ==
    IF e.left \in {"ident", "path"} /\ e.right \in {"str", "lit"}
    THEN IF e.left = "ident" /\ e.right = "str"
         THEN LET r == TryFrom(e.ident) IN
              IF ~r.ok
              THEN Rejected(Error("Cannot parse attribute", e.ident, r.text))
              ELSE IF r.attr.kind \in ValueKinds
                   THEN Parsed(Attr(r.attr.kind, e.value))
                   ELSE Rejected(Error("cannot be applied at this level", e.ident, ""))
         ELSE Rejected(Error("Expecting expression like key = value", "", ""))
    ELSE Rejected(Error("Expecting expression like key = value", "", ""))

\* The Expr::Path branch.
ParsePath(e) ==
    IF e.left = "ident"
    THEN LET r == TryFrom(e.ident) IN
         IF ~r.ok
         THEN Rejected(Error("Cannot parse attribute", e.ident, r.text))
         ELSE IF r.attr.kind \in PathKinds
              THEN Parsed(r.attr)
              ELSE Rejected(Error("cannot be applied at this level", e.ident, ""))
    ELSE Rejected(Error("Cannot extract identifier", "", ""))

\* An unknown key dropped instead of reported.
ParseExprSkipUnknown(e) ==
    LET r == CASE e.form = "Assign" -> ParseAssign(e)
               [] e.form = "Path" -> ParsePath(e)
               [] OTHER -> Rejected(Error("Expecting expression like [key = value] or [key]", "", ""))
    IN  IF ~r.ok /\ r.err.msg = "Cannot parse attribute" THEN Parsed(Flag("None")) ELSE r

\* The body of the for loop of Context::parse.
ParseExpr(e) ==
    CASE e.form = "Assign" -> ParseAssign(e)
      [] e.form = "Path" -> ParsePath(e)
      [] OTHER -> Rejected(Error("Expecting expression like [key = value] or [key]", "", ""))

(***************************************************************************)
(* context.rs: the queries of Context.                                     *)
(***************************************************************************)
\* self.attrs.iter().any(|at| matches!(at, kind))
AnyAttr(cx, kind) == \E i \in DOMAIN cx : cx[i].kind = kind

\* self.attrs.iter().find(..) / find_map(..): the first attribute of the kind.
FindAttr(cx, kind) == cx[CHOOSE i \in DOMAIN cx :
                        /\ cx[i].kind = kind
                        /\ \A j \in 1..(i - 1) : cx[j].kind # kind]

display_required(cx) == AnyAttr(cx, "Display")

display_variant(cx) == AnyAttr(cx, "DisplayVariant")

display_variant_snake(cx) == AnyAttr(cx, "DisplayVariantSnake")

display_from_value_required(cx) == AnyAttr(cx, "DisplayFromValue")

\* Context::iterator is called by lib.rs and is not in context.rs.
iterator(cx) == AnyAttr(cx, "Iterator")

\* Ident::new: the identifier, or a panic.
IdentNew(s) == [ok |-> IsValidIdent(s), ident |-> s]

\* The last attribute of the kind.
FindLastAttr(cx, kind) == cx[CHOOSE i \in DOMAIN cx :
                               /\ cx[i].kind = kind
                               /\ \A j \in (i + 1)..Len(cx) : cx[j].kind # kind]

enum_name_last_wins(cx, src) ==
    IdentNew(IF AnyAttr(cx, "EnumName") THEN FindLastAttr(cx, "EnumName").value
             ELSE src \o <<"I", "d">>)

enum_name(cx, src) ==
    IdentNew(IF AnyAttr(cx, "EnumName") THEN FindAttr(cx, "EnumName").value
             ELSE src \o <<"I", "d">>)

getter_name(cx, src) ==
    IdentNew(IF AnyAttr(cx, "Getter") THEN FindAttr(cx, "Getter").value
             ELSE <<"i", "d">>)

VisPublic == "pub"
VisInherited == "inherited"
VisCrate == "pub(crate)"

visibility_private_first(cx, vis) ==
    IF AnyAttr(cx, "NotPublic") THEN VisInherited
    ELSE IF AnyAttr(cx, "Public") THEN VisPublic
    ELSE vis

visibility(cx, vis) ==
    IF AnyAttr(cx, "Public") THEN VisPublic
    ELSE IF AnyAttr(cx, "NotPublic") THEN VisInherited
    ELSE vis

\* str::split(','): the pieces between the separators, empty pieces kept.
RECURSIVE SplitFrom(_, _, _)
SplitFrom(s, i, piece) ==
    IF i > Len(s) THEN <<piece>>
    ELSE IF s[i] = "," THEN <<piece>> \o SplitFrom(s, i + 1, <<>>)
    ELSE SplitFrom(s, i + 1, Append(piece, s[i]))

Split(s) == SplitFrom(s, 1, <<>>)

\* str::trim
RECURSIVE TrimStart(_)
TrimStart(s) ==
    IF Len(s) > 0 /\ is_whitespace(s[1]) THEN TrimStart(Tail(s)) ELSE s

RECURSIVE TrimEnd(_)
TrimEnd(s) ==
    IF Len(s) > 0 /\ is_whitespace(s[Len(s)])
    THEN TrimEnd(SubSeq(s, 1, Len(s) - 1)) ELSE s

Trim(s) == TrimEnd(TrimStart(s))

\* An attribute of an item: its path and, for a derive, the listed traits.
Attribute(path, tokens) == [path |-> path, tokens |-> tokens]

Derived(list) == [ok |-> TRUE, attrs |-> list]

DerivePanic == [ok |-> FALSE, attrs |-> <<>>]

derive_override_first(cx, srcAttrs) ==
    IF AnyAttr(cx, "Derive")
    THEN Derived(<<Attribute("derive",
                      [i \in DOMAIN Split(FindAttr(cx, "Derive").value) |->
                          Trim(Split(FindAttr(cx, "Derive").value)[i])])>>)
    ELSE IF AnyAttr(cx, "NoDerive") THEN Derived(<<>>)
    ELSE Derived(SelectSeq(srcAttrs, LAMBDA a : a.path = "derive"))

derive(cx, srcAttrs) ==
    IF AnyAttr(cx, "NoDerive") THEN Derived(<<>>)
    ELSE IF AnyAttr(cx, "Derive")
         THEN LET list == FindAttr(cx, "Derive").value
                  pieces == Split(list)
                  traits == [i \in DOMAIN pieces |-> IdentNew(Trim(pieces[i]))]
              IN  IF \A i \in DOMAIN traits : traits[i].ok
                  THEN Derived(<<Attribute("derive",
                                    [i \in DOMAIN traits |-> traits[i].ident])>>)
                  ELSE DerivePanic
         ELSE Derived(SelectSeq(srcAttrs, LAMBDA a : a.path = "derive"))

(***************************************************************************)
(* lib.rs: the transformer.                                                *)
(*                                                                         *)
(* A variant of the source enum is its ident and its fields: kind "Unit",  *)
(* "Unnamed" or "Named" (syn::Fields) and the number n of payload slots.   *)
(***************************************************************************)
Variant(ident, kind, n) == [ident |-> ident, fields |-> [kind |-> kind, n |-> n]]

ItemEnum(ident, vis, itemAttrs, variants) ==
    [ident |-> ident, vis |-> vis, attrs |-> itemAttrs, variants |-> variants]

\* A match arm `pat => expr,`: pat is the path src::variant followed by
\* nothing, by (..) or by {..}; expr is the path dest::variant.
Arm(path, rest, expr) == [path |-> path, rest |-> rest, expr |-> expr]

get_arm_unit_only(variant, src, dest_ident) ==
    Arm(<<src, variant.ident>>, "", <<dest_ident, variant.ident>>)

get_arm(variant, src, dest_ident) ==
    CASE variant.fields.kind = "Unit" ->
            Arm(<<src, variant.ident>>, "", <<dest_ident, variant.ident>>)
      [] variant.fields.kind = "Unnamed" ->
            Arm(<<src, variant.ident>>, "(..)", <<dest_ident, variant.ident>>)
      [] variant.fields.kind = "Named" ->
            Arm(<<src, variant.ident>>, "{..}", <<dest_ident, variant.ident>>)

\* fn to_snake_case, the loop over name.chars().enumerate(); the code's
\* index i starts at 0, the sequence index at 1.
RECURSIVE SnakeLoop(_, _, _)
SnakeLoop(s, i, result) ==
    IF i > Len(s) THEN result
    ELSE LET c == s[i] IN
         IF is_uppercase(c)
         THEN SnakeLoop(s, i + 1,
                        Append(IF i # 1 THEN Append(result, "_") ELSE result,
                               to_ascii_lowercase(c)))
         ELSE SnakeLoop(s, i + 1, Append(result, c))

RECURSIVE SnakeKeepCase(_, _, _)
SnakeKeepCase(s, i, result) ==
    IF i > Len(s) THEN result
    ELSE LET c == s[i] IN
         IF is_uppercase(c)
         THEN SnakeKeepCase(s, i + 1,
                            Append(IF i # 1 THEN Append(result, "_") ELSE result, c))
         ELSE SnakeKeepCase(s, i + 1, Append(result, c))

to_snake_case_keep_case(s) == SnakeKeepCase(s, 1, <<>>)

RECURSIVE SnakeLeadingSeparator(_, _, _)
SnakeLeadingSeparator(s, i, result) ==
    IF i > Len(s) THEN result
    ELSE LET c == s[i] IN
         IF is_uppercase(c)
         THEN SnakeLeadingSeparator(s, i + 1,
                                    Append(Append(result, "_"), to_ascii_lowercase(c)))
         ELSE SnakeLeadingSeparator(s, i + 1, Append(result, c))

to_snake_case_leading_separator(s) == SnakeLeadingSeparator(s, 1, <<>>)

to_snake_case(s) == SnakeLoop(s, 1, <<>>)

\* An `impl Display for target`: one arm per variant, the text it writes.
NoImpl == [present |-> FALSE, target |-> <<>>, arms |-> <<>>]

Impl(target, arms) == [present |-> TRUE, target |-> target, arms |-> arms]

\* stringify!(src::variant), written without the spaces between the tokens.
get_display_impl(cx, input, dest_ident, src) ==
    IF display_required(cx)
    THEN Impl(dest_ident,
              [i \in DOMAIN input.variants |->
                  [pat |-> <<dest_ident, input.variants[i].ident>>,
                   text |-> src \o <<":", ":">> \o input.variants[i].ident]])
    ELSE NoImpl

get_display_variant_impl(cx, input, dest_ident) ==
    IF display_variant(cx) \/ display_variant_snake(cx)
    THEN Impl(dest_ident,
              [i \in DOMAIN input.variants |->
                  [pat |-> <<dest_ident, input.variants[i].ident>>,
                   text |-> IF display_variant(cx)
                            THEN input.variants[i].ident
                            ELSE to_snake_case(input.variants[i].ident)]])
    ELSE NoImpl

\* Every arm is `src::variant(v) => v.to_string()`, whatever the fields.
get_display_from_value_required(cx, input, src) ==
    IF display_from_value_required(cx)
    THEN Impl(src,
              [i \in DOMAIN input.variants |->
                  [pat |-> <<src, input.variants[i].ident>>, text |-> <<"v">>]])
    ELSE NoImpl

\* `impl src { pub fn as_vec() -> Vec<src> }`: the list of src::variant.
get_iterator_always(cx, input, src) ==
    Impl(src, [i \in DOMAIN input.variants |-> <<src, input.variants[i].ident>>])

get_iterator(cx, input, src) ==
    IF iterator(cx)
    THEN Impl(src, [i \in DOMAIN input.variants |-> <<src, input.variants[i].ident>>])
    ELSE NoImpl

NoOut == [emitted |-> FALSE]

iter_values_reversed(input, dest_ident) ==
    [i \in DOMAIN input.variants |->
        <<dest_ident, input.variants[Len(input.variants) + 1 - i].ident>>]

\* lib.rs:69-74
iter_values(input, dest_ident) ==
    [i \in DOMAIN input.variants |-> <<dest_ident, input.variants[i].ident>>]

\* fn enum_ids after both inputs are parsed: the expanded token stream, or a
\* panic of Ident::new in enum_name, getter_name or derive.
Expand(cx, input) ==
    LET src == input.ident
        vis == visibility(cx, input.vis)
        dest == enum_name(cx, src)
        getter == getter_name(cx, src)
        derive_attrs == derive(cx, input.attrs)
    IN  IF dest.ok /\ getter.ok /\ derive_attrs.ok
        THEN [emitted |-> TRUE,
              input |-> input,
              getter_ident |-> getter.ident,
              match_arms |-> [i \in DOMAIN input.variants |->
                                 get_arm(input.variants[i], src, dest.ident)],
              derive_attrs |-> derive_attrs.attrs,
              visibility |-> vis,
              dest_ident |-> dest.ident,
              variants |-> [i \in DOMAIN input.variants |-> input.variants[i].ident],
              self_iterator_impl |-> get_iterator(cx, input, src),
              as_vec |-> iter_values(input, dest.ident),
              display_impl |-> get_display_impl(cx, input, dest.ident, src),
              display_variant_impl |-> get_display_variant_impl(cx, input, dest.ident),
              display_from_value_impl |-> get_display_from_value_required(cx, input, src)]
        ELSE NoOut

\* The items of the expanded token stream (lib.rs:84-115): those written in
\* the template itself, and those an interpolated impl adds when it is not
\* the empty stream.
Members(unit) ==
    (IF "input" \in DOMAIN unit THEN {"source type"} ELSE {})
    \cup (IF "match_arms" \in DOMAIN unit THEN {"projector"} ELSE {})
    \cup (IF "variants" \in DOMAIN unit THEN {"companion type"} ELSE {})
    \cup (IF "as_vec" \in DOMAIN unit THEN {"companion as_vec"} ELSE {})
    \cup (IF unit.self_iterator_impl.present THEN {"source as_vec"} ELSE {})
    \cup (IF unit.display_impl.present THEN {"display"} ELSE {})
    \cup (IF unit.display_variant_impl.present THEN {"display variant"} ELSE {})
    \cup (IF unit.display_from_value_impl.present THEN {"display from value"} ELSE {})

(***************************************************************************)
(* The inputs of the model.                                                *)
(***************************************************************************)
\* The keys of the directive grammar, and one key outside it.
FlagKeys ==
    {"no_derive", "not_public", "public", "display", "display_variant",
     "display_variant_snake", "display_from_value", "iterator"}

ValueKeys == {"derive", "getter", "name"}

GrammarKeys == FlagKeys \cup ValueKeys

Keys == GrammarKeys \cup {"unknown"}

StrKind == <<"K", "i", "n", "d">>
StrGetId == <<"g", "e", "t", "_", "i", "d">>
StrDebug == <<"D", "e", "b", "u", "g">>
StrClone == <<"C", "l", "o", "n", "e">>
StrDebugClone == StrDebug \o <<",", " ">> \o StrClone
StrEqComma == <<"E", "q", ",">>

StrTag == <<"T", "a", "g">>

\* The string literals written after `key =`, for each value key.
Payloads(k) ==
    CASE k = "derive" -> {StrDebugClone, StrEqComma, <<>>}
      [] k = "getter" -> {StrGetId, <<>>}
      [] k = "name" -> {StrTag, <<>>}

Entries ==
    {Expr("Path", "ident", k, "", <<>>) : k \in Keys}
    \cup {Expr("Path", "path", "", "", <<>>)}
    \cup UNION {{Expr("Assign", "ident", k, "str", v) : v \in Payloads(k)} :
                   k \in ValueKeys}
    \cup {Expr("Assign", "ident", k, "str", StrGetId) : k \in Keys \ ValueKeys}
    \cup {Expr("Assign", "ident", "derive", "lit", <<>>),
          Expr("Assign", "path", "", "str", StrGetId),
          Expr("Assign", "other", "", "other", <<>>),
          Expr("Other", "", "", "", <<>>)}

SeqsUpTo(S, n) == UNION {[1..k -> S] : k \in 0..n}

ArgLists == SeqsUpTo(Entries, MaxArgs)

Visibilities == {VisPublic, VisCrate, VisInherited}

AttrLists ==
    {<<>>,
     <<Attribute("derive", <<StrDebug, StrClone>>)>>,
     <<Attribute("doc", <<>>), Attribute("derive", <<StrDebug>>),
       Attribute("repr", <<>>), Attribute("derive", <<StrClone>>)>>}

VariantNames == {<<"A">>, <<"B">>, <<"C">>}

Shapes == {[kind |-> "Unit", n |-> 0], [kind |-> "Unnamed", n |-> 1],
           [kind |-> "Named", n |-> 1]}

Variants == {[ident |-> v, fields |-> f] : v \in VariantNames, f \in Shapes}

\* The variants of an enum have distinct names (rustc rejects the item
\* otherwise, error E0428).
VariantLists ==
    {vs \in SeqsUpTo(Variants, MaxVariants) :
        \A i, j \in DOMAIN vs : i # j => vs[i].ident # vs[j].ident}

DefaultVariants == <<Variant(<<"A">>, "Unnamed", 1), Variant(<<"B">>, "Named", 1)>>

\* The source enums: every visibility with every attribute list, and every
\* variant list.
Items ==
    {ItemEnum(StrKind, v, a, DefaultVariants) : v \in Visibilities, a \in AttrLists}
    \cup {ItemEnum(StrKind, VisCrate, <<>>, vs) : vs \in VariantLists}

NoItem == ItemEnum(<<>>, "", <<>>, <<>>)

\* The names given to to_snake_case: the identifiers of up to MaxNameLen
\* characters over SnakeChars, and the names of the tests.
SnakeChars == {"A", "B", "a", "_", "1", UpperEAcute}

ExampleNames ==
    {<<"F", "i", "e", "l", "d", "A">>,
     <<"T", "h", "i", "s", "I", "s", "F", "i", "e", "l", "d", "B">>,
     <<"C">>,
     <<"A", "B", "C">>}

Names ==
    {s \in SeqsUpTo(SnakeChars, MaxNameLen) : IsValidIdent(s)} \cup ExampleNames

(***************************************************************************)
(* The macro invocation.                                                   *)
(***************************************************************************)
Init ==
    /\ args \in ArgLists
    /\ pos = 1
    /\ attrs = <<>>
    /\ pc = "parse"
    /\ err = NoErr
    /\ item = NoItem
    /\ out = NoOut
    /\ name = <<>>
    /\ results = <<>>

\* One turn of the loop of Context::parse on an entry it accepts.
ParseEntry ==
    /\ pc = "parse"
    /\ pos <= Len(args)
    /\ ParseExpr(args[pos]).ok
    /\ attrs' = Append(attrs, ParseExpr(args[pos]).attr)
    /\ pos' = pos + 1
    /\ UNCHANGED <<args, pc, err, item, out, name, results>>

\* One turn of the loop on an entry it rejects: parse returns Err and
\* parse_macro_input! makes enum_ids return the compile error alone.
ParseFail ==
    /\ pc = "parse"
    /\ pos <= Len(args)
    /\ ~ParseExpr(args[pos]).ok
    /\ err' = ParseExpr(args[pos]).err
    /\ pc' = "error"
    /\ UNCHANGED <<args, pos, attrs, item, out, name, results>>

\* The end of the list: Ok(Context::new(attrs)).
ParseFinish ==
    /\ pc = "parse"
    /\ pos > Len(args)
    /\ pc' = "expand"
    /\ UNCHANGED <<args, pos, attrs, err, item, out, name, results>>

\* enum_ids from the parse of the item to the returned token stream.
EnumIds ==
    /\ pc = "expand"
    /\ \E input \in Items :
          /\ Expand(attrs, input) # NoOut
          /\ item' = input
          /\ out' = Expand(attrs, input)
    /\ pc' = "done"
    /\ UNCHANGED <<args, pos, attrs, err, name, results>>

\* enum_ids when Ident::new panics: nothing is returned.
EnumIdsPanic ==
    /\ pc = "expand"
    /\ \E input \in Items :
          /\ Expand(attrs, input) = NoOut
          /\ item' = input
    /\ pc' = "panic"
    /\ UNCHANGED <<args, pos, attrs, err, out, name, results>>

Next == ParseEntry \/ ParseFail \/ ParseFinish \/ EnumIds \/ EnumIdsPanic

Spec == Init /\ [][Next]_vars

(***************************************************************************)
(* to_snake_case on its own: a name, then the transform applied to it and  *)
(* to its own result.                                                      *)
(***************************************************************************)
InitSnake ==
    /\ args = <<>>
    /\ pos = 1
    /\ attrs = <<>>
    /\ pc = "snake"
    /\ err = NoErr
    /\ item = NoItem
    /\ out = NoOut
    /\ name \in Names
    /\ results = <<>>

SnakeFirst ==
    /\ pc = "snake"
    /\ results = <<>>
    /\ results' = <<to_snake_case(name)>>
    /\ UNCHANGED <<args, pos, attrs, pc, err, item, out, name>>

SnakeAgain ==
    /\ pc = "snake"
    /\ Len(results) = 1
    /\ results' = Append(results, to_snake_case(results[1]))
    /\ UNCHANGED <<args, pos, attrs, pc, err, item, out, name>>

NextSnake == SnakeFirst \/ SnakeAgain

SpecSnake == InitSnake /\ [][NextSnake]_vars

(***************************************************************************)
(* The generated projector, run on a value of the source enum             *)
(* (lib.rs:90-94, `match self { arms }`).                                  *)
(***************************************************************************)
\* The values of an enum: a variant and a payload for each of its slots.
Values(input) ==
    UNION {{[variant |-> input.variants[i].ident,
             kind |-> input.variants[i].fields.kind,
             payload |-> p] : p \in [1..input.variants[i].fields.n -> {0, 1}]} :
           i \in DOMAIN input.variants}

\* Rust's match: a path pattern matches a unit variant, `(..)` a tuple
\* variant, `{..}` a variant of any kind; the payload is not looked at.
ArmMatches(arm, src, value) ==
    /\ arm.path = <<src, value.variant>>
    /\ arm.rest = "" => value.kind = "Unit"
    /\ arm.rest = "(..)" => value.kind = "Unnamed"

NoCase == <<>>

Project(unit, value) ==
    LET hits == {i \in DOMAIN unit.match_arms :
                    ArmMatches(unit.match_arms[i], unit.input.ident, value)}
    IN  IF hits = {} THEN NoCase
        ELSE unit.match_arms[CHOOSE i \in hits : \A j \in hits : i <= j].expr

(***************************************************************************)
(* The claims.                                                             *)
(***************************************************************************)
\* The directive list as written: whether a key occurs, and the payload of
\* its first occurrence.
HasKey(k) == \E i \in DOMAIN args : args[i].ident = k

FirstPayload(k) ==
    args[CHOOSE i \in DOMAIN args :
            /\ args[i].ident = k
            /\ \A j \in 1..(i - 1) : args[j].ident # k].value

\* C1: the companion type has one payload-free case per source case, of the
\* same name and in the same order, and the projector maps every value of a
\* source case, whatever its shape and payload, to the case of that name.
C1_CompanionMirrorsCases ==
    out # NoOut =>
        /\ Len(out.variants) = Len(item.variants)
        /\ \A i \in DOMAIN item.variants : out.variants[i] = item.variants[i].ident
        /\ \A v \in Values(item) :
              /\ Project(out, v) = <<out.dest_ident, v.variant>>
              /\ \E i \in DOMAIN out.variants : out.variants[i] = v.variant

C1_Witness ==
    /\ pc = "done"
    /\ Len(item.variants) = 3
    /\ {item.variants[i].fields.kind : i \in DOMAIN item.variants}
          = {"Unit", "Unnamed", "Named"}
    /\ \A v \in Values(item) : Project(out, v) = <<out.dest_ident, v.variant>>

\* C2: the companion type is named by the first `name` directive, else by
\* the source name followed by Id; the projector by the first `getter`
\* directive, else id; nothing else in the list changes either name.
C2_FirstNameWins ==
    out # NoOut =>
        /\ out.dest_ident = IF HasKey("name") THEN FirstPayload("name")
                            ELSE item.ident \o <<"I", "d">>
        /\ out.getter_ident = IF HasKey("getter") THEN FirstPayload("getter")
                              ELSE <<"i", "d">>

C2_Witness ==
    /\ pc = "done"
    /\ Len(args) = 2
    /\ args[1].ident = "name"
    /\ args[2].ident = "name"
    /\ args[1].value # args[2].value
    /\ out.dest_ident = args[1].value
    /\ out.getter_ident = <<"i", "d">>

\* C3: `public` anywhere makes the companion type public, else `not_public`
\* makes it private, else it has the visibility the source type declares.
C3_VisibilityPrecedence ==
    out # NoOut =>
        out.visibility = IF HasKey("public") THEN VisPublic
                         ELSE IF HasKey("not_public") THEN VisInherited
                         ELSE item.vis

C3_Witness ==
    /\ pc = "done"
    /\ Len(args) = 2
    /\ args[1].ident = "not_public"
    /\ args[2].ident = "public"
    /\ item.vis = VisInherited
    /\ out.visibility = VisPublic

\* The names of a list joined by commas, and a string without its spaces.
RECURSIVE JoinComma(_)
JoinComma(list) ==
    IF list = <<>> THEN <<>>
    ELSE IF Len(list) = 1 THEN list[1]
    ELSE list[1] \o <<",">> \o JoinComma(Tail(list))

WithoutSpaces(str) == SelectSeq(str, LAMBDA c : c # " ")

\* C4: with `no_derive` the companion type has no annotation; else with a
\* `derive` override it has exactly the names of the first override, comma
\* separated, and nothing of the source; else exactly the derive
\* annotations of the source, in source order, and no other annotation.
C4_DerivePrecedence ==
    out # NoOut =>
        IF HasKey("no_derive") THEN out.derive_attrs = <<>>
        ELSE IF HasKey("derive")
             THEN /\ Len(out.derive_attrs) = 1
                  /\ out.derive_attrs[1].path = "derive"
                  /\ \A i \in DOMAIN out.derive_attrs[1].tokens :
                        IsValidIdent(out.derive_attrs[1].tokens[i])
                  /\ JoinComma(out.derive_attrs[1].tokens)
                        = WithoutSpaces(FirstPayload("derive"))
             ELSE out.derive_attrs = SelectSeq(item.attrs, LAMBDA a : a.path = "derive")

C4_Witness ==
    /\ pc = "done"
    /\ Len(args) = 2
    /\ args[1].ident = "derive"
    /\ args[2].ident = "no_derive"
    /\ \E i \in DOMAIN item.attrs : item.attrs[i].path = "derive"
    /\ out.derive_attrs = <<>>

IsBare(e) == e.form = "Path" /\ e.left = "ident"

IsKeyValue(e) == e.form = "Assign" /\ e.left = "ident" /\ e.right = "str"

\* Entry i has been through the loop of Context::parse: it was accepted, or
\* it is the entry the parse failed on.
Accepted(i) == pos > i

FailedAt(i) == pos = i /\ pc = "error"

\* C5: an entry with a key outside the vocabulary is never passed by the
\* parser, the error raised on it carries the key, and nothing is emitted
\* for a list that holds one.
C5_UnknownKeyRejected ==
    \A i \in DOMAIN args :
        (IsBare(args[i]) \/ IsKeyValue(args[i])) /\ args[i].ident \notin GrammarKeys =>
            /\ ~Accepted(i)
            /\ pc \notin {"expand", "done", "panic"}
            /\ out = NoOut
            /\ FailedAt(i) => /\ err.msg = "Cannot parse attribute"
                              /\ err.ident = args[i].ident
                              /\ err.unknown = args[i].ident

C5_Witness ==
    /\ Len(args) = 2
    /\ IsBare(args[1]) /\ args[1].ident = "public"
    /\ IsKeyValue(args[2]) /\ args[2].ident = "unknown"
    /\ FailedAt(2)
    /\ err.unknown = "unknown"
    /\ out = NoOut

\* C6: every key of the grammar is accepted by the parse of a single
\* directive and is the key of the directive it yields, and two keys never
\* yield the same kind of directive.
C6_GrammarKeysRoundTrip ==
    \A i \in DOMAIN args :
        (IsBare(args[i]) \/ IsKeyValue(args[i]))
          /\ args[i].ident \in GrammarKeys /\ (Accepted(i) \/ FailedAt(i)) =>
            /\ TryFrom(args[i].ident).ok
            /\ AttrToString(TryFrom(args[i].ident).attr) = args[i].ident
            /\ err.msg # "Cannot parse attribute"
            /\ \A k \in GrammarKeys \ {args[i].ident} :
                  TryFrom(k).ok => TryFrom(k).attr.kind # TryFrom(args[i].ident).attr.kind

\* C7: a flag key followed by `= "value"` and a value key written bare are
\* errors that name the key and add no directive; a flag key written bare
\* and a value key written `key = "string"` are accepted and appended in
\* input order, duplicates included.
C7_FormDecidesAcceptance ==
    /\ Len(attrs) = pos - 1
    /\ \A i \in DOMAIN args :
          LET e == args[i]
              rightForm == \/ IsBare(e) /\ e.ident \in FlagKeys
                           \/ IsKeyValue(e) /\ e.ident \in ValueKeys
              wrongForm == \/ IsKeyValue(e) /\ e.ident \in FlagKeys
                           \/ IsBare(e) /\ e.ident \in ValueKeys
          IN  /\ rightForm /\ (Accepted(i) \/ FailedAt(i)) =>
                    /\ Accepted(i)
                    /\ AttrToString(attrs[i]) = e.ident
                    /\ e.ident \in ValueKeys => attrs[i].value = e.value
              /\ wrongForm /\ (Accepted(i) \/ FailedAt(i)) =>
                    /\ FailedAt(i)
                    /\ err.ident = e.ident

\* The characters of the restricted identifier set: ASCII letters, digits
\* and the underscore.
IsAsciiName(s) ==
    \A i \in DOMAIN s :
        s[i] \in Range(AsciiUpper) \cup Range(AsciiLower) \cup Digits \cup {"_"}

\* The reference algorithm, by position: a separator goes before every
\* uppercase character but the first character of the name.
SeparatorBefore(s, i) == i > 1 /\ s[i] \in Range(AsciiUpper)

Shift(s, i) == Cardinality({j \in 1..i : SeparatorBefore(s, j)})

IsSnakeOf(r, s) ==
    /\ Len(r) = Len(s) + Shift(s, Len(s))
    /\ \A i \in DOMAIN s :
          /\ r[i + Shift(s, i)] = to_ascii_lowercase(s[i])
          /\ r[i + Shift(s, i)] \notin Range(AsciiUpper)
          /\ SeparatorBefore(s, i) => r[i + Shift(s, i) - 1] = "_"

C9_SnakeCaseIdempotent ==
    Len(results) = 2 => results[2] = results[1]

\* C9, amended: for every case name over the restricted identifier set
\* (ASCII letters, digits, underscore), to_snake_case applied to its own
\* result gives that result again.
C9_SnakeCaseIdempotentAscii ==
    Len(results) = 2 /\ IsAsciiName(name) => results[2] = results[1]

C9_Witness ==
    /\ name = <<"A", "_", "B">>
    /\ Len(results) = 2
    /\ results[1] = <<"a", "_", "_", "b">>
    /\ results[2] = results[1]

C12_ExpansionTotal ==
    pc \in {"done", "panic"} => pc = "done" /\ out # NoOut

\* A directive list of flags only, and the end of the invocation.
OnlyFlags == \A i \in DOMAIN args : IsBare(args[i]) /\ args[i].ident \in FlagKeys

Finished == pc \notin {"parse", "expand"}

\* C13: with `display_variant` in the list, also beside
\* `display_variant_snake` and in either order, every companion case
\* renders as its exact name; with `display_variant_snake` and no
\* `display_variant` every case renders as its snake-case name.
C13_ExactCaseWinsOverSnake ==
    OnlyFlags /\ Finished /\ (HasKey("display_variant") \/ HasKey("display_variant_snake")) =>
        /\ out # NoOut
        /\ out.display_variant_impl.present
        /\ Len(out.display_variant_impl.arms) = Len(item.variants)
        /\ \A i \in DOMAIN item.variants :
              IF HasKey("display_variant")
              THEN out.display_variant_impl.arms[i].text = item.variants[i].ident
              ELSE IsSnakeOf(out.display_variant_impl.arms[i].text, item.variants[i].ident)

\* The stringification impls of a unit that are written for its companion type.
CompanionDisplayImpls(unit) ==
    {m \in {"display_impl", "display_variant_impl", "display_from_value_impl"} :
        unit[m].present /\ unit[m].target = unit.dest_ident}

\* C14: a generated unit holds at most one stringification impl for the
\* companion type, whatever display modes the list requests, and the impl
\* of display-from-value is for the source type.
C14_AtMostOneCompanionDisplay ==
    out # NoOut =>
        /\ Cardinality(CompanionDisplayImpls(out)) <= 1
        /\ out.display_from_value_impl.present =>
              /\ out.display_from_value_impl.target = item.ident
              /\ "display_from_value_impl" \notin CompanionDisplayImpls(out)

====
